---- MODULE Spec2Model ----
(***************************************************************************)
(* RoadBuddy backend (Backend/app.py): the in-memory Trip Store and        *)
(* Booking Store and the HTTP handlers that read and change them.          *)
(*                                                                         *)
(* Representation.                                                         *)
(*  - A Python str is a sequence of one-character strings, so that         *)
(*    lower() and the substring test `in` are computed character by        *)
(*    character.  Labels that no handler looks into (driver names, car     *)
(*    models, ...) are written as a one-element sequence holding the whole *)
(*    label.  The empty str is << >>.                                      *)
(*  - A JSON value of a request body is a record [t, i, s, l]: t is the    *)
(*    JSON type, i the number (t = "int"), s the text (t = "str"), l the   *)
(*    elements (t = "list").                                               *)
(*  - A JSON object is a function from its keys to JSON values; dict.get   *)
(*    is Get.                                                              *)
(*  - pricePerPerson and totalPrice are floats holding whole numbers and   *)
(*    are written as integers; driverRating is written in tenths.          *)
(*  - uuid4() is modelled by its contract, a value distinct from every     *)
(*    identifier issued before.                                            *)
(***************************************************************************)
EXTENDS Integers, Sequences, FiniteSets, TLC

VARIABLES trips, bookings, last, threads

vars == <<trips, bookings, last, threads>>

\* Bound of the model: number of successful store-changing requests
\* (trip creations plus bookings) in one run.
MaxOps == 2

\* Bound of the model: number of booking requests that parallel threads
\* handle at the same time (specification SpecThreads).
MaxThreads == 2

-----------------------------------------------------------------------------
(* Strings *)

Empty == << >>

NewYork == <<"N", "e", "w", " ", "Y", "o", "r", "k">>
Boston == <<"B", "o", "s", "t", "o", "n">>
Philadelphia == <<"P", "h", "i", "l", "a", "d", "e", "l", "p", "h", "i", "a">>
Rome == <<"R", "o", "m", "e">>
Arrow == <<" ", "→", " ">>
DemoUser == <<"demo-user">>
Alice == <<"alice">>

UpperToLower ==
    [c \in {"A", "B", "C", "D", "E", "F", "G", "H", "I", "J", "K", "L", "M",
            "N", "O", "P", "Q", "R", "S", "T", "U", "V", "W", "X", "Y", "Z"} |->
        CASE c = "A" -> "a" [] c = "B" -> "b" [] c = "C" -> "c" [] c = "D" -> "d"
          [] c = "E" -> "e" [] c = "F" -> "f" [] c = "G" -> "g" [] c = "H" -> "h"
          [] c = "I" -> "i" [] c = "J" -> "j" [] c = "K" -> "k" [] c = "L" -> "l"
          [] c = "M" -> "m" [] c = "N" -> "n" [] c = "O" -> "o" [] c = "P" -> "p"
          [] c = "Q" -> "q" [] c = "R" -> "r" [] c = "S" -> "s" [] c = "T" -> "t"
          [] c = "U" -> "u" [] c = "V" -> "v" [] c = "W" -> "w" [] c = "X" -> "x"
          [] c = "Y" -> "y" [] c = "Z" -> "z"]

\* str.lower()
Lower(s) ==
    [i \in 1..Len(s) |-> IF s[i] \in DOMAIN UpperToLower THEN UpperToLower[s[i]] ELSE s[i]]

\* `q in s` on two strs
Contains(q, s) ==
    \E i \in 0..(Len(s) - Len(q)) : SubSeq(s, i + 1, i + Len(q)) = q

DigitChars == <<"0", "1", "2", "3", "4", "5", "6", "7", "8", "9">>

RECURSIVE NatStr(_)
\* str(n) for n >= 0
NatStr(n) ==
    IF n < 10 THEN <<DigitChars[n + 1]>>
    ELSE NatStr(n \div 10) \o <<DigitChars[(n % 10) + 1]>>

\* str(n)
IntStr(n) == IF n < 0 THEN <<"-">> \o NatStr(-n) ELSE NatStr(n)

DigitValue(c) == CHOOSE d \in 0..9 : DigitChars[d + 1] = c

IsDigits(s) ==
    /\ Len(s) >= 1
    /\ \A i \in 1..Len(s) : \E d \in 1..10 : DigitChars[d] = s[i]

RECURSIVE DigitsValue(_)
DigitsValue(s) ==
    IF s = << >> THEN 0
    ELSE 10 * DigitsValue(SubSeq(s, 1, Len(s) - 1)) + DigitValue(s[Len(s)])

-----------------------------------------------------------------------------
(* JSON values and Python's coercions of them *)

JNull == [t |-> "null", i |-> 0, s |-> << >>, l |-> << >>]
JInt(n) == [t |-> "int", i |-> n, s |-> << >>, l |-> << >>]
JStr(s) == [t |-> "str", i |-> 0, s |-> s, l |-> << >>]
JList(l) == [t |-> "list", i |-> 0, s |-> << >>, l |-> l]

\* dict.get(key, default)
Get(data, key, default) == IF key \in DOMAIN data THEN data[key] ELSE default

\* A str int() accepts: an optional sign and decimal digits.
IsIntLiteral(s) ==
    \/ IsDigits(s)
    \/ /\ Len(s) >= 2
       /\ s[1] \in {"-", "+"}
       /\ IsDigits(Tail(s))

\* int(v) returns (it raises TypeError on None and on a list, ValueError on
\* a str that is no integer literal)
IntOk(v) ==
    \/ v.t = "int"
    \/ v.t = "str" /\ IsIntLiteral(v.s)

\* int(v), where it returns
IntOf(v) ==
    IF v.t = "int" THEN v.i
    ELSE IF v.s[1] = "-" THEN -DigitsValue(Tail(v.s))
    ELSE IF v.s[1] = "+" THEN DigitsValue(Tail(v.s))
    ELSE DigitsValue(v.s)

\* float(v) returns; the numbers of the model are whole, so float() accepts
\* what int() accepts
FloatOk(v) == IntOk(v)

\* float(v), where it returns
FloatOf(v) == IntOf(v)

\* format(v) inside an f-string
Format(v) ==
    CASE v.t = "str" -> v.s
      [] v.t = "int" -> IntStr(v.i)
      [] v.t = "null" -> <<"N", "o", "n", "e">>
      [] OTHER -> <<"[", "]">>

-----------------------------------------------------------------------------
(* Seed data *)

SeedTrips == <<
    [id |-> <<"1">>,
     driverName |-> JStr(<<"Sarah M.">>),
     driverRating |-> 48,
     route |-> NewYork \o Arrow \o Boston,
     departureCity |-> JStr(NewYork),
     destinationCity |-> JStr(Boston),
     departureTime |-> JStr(<<"2025-06-15T09:00:00Z">>),
     availableSeats |-> 3,
     totalSeats |-> 4,
     pricePerPerson |-> 45,
     estimatedDuration |-> JStr(<<"4h 30m">>),
     carModel |-> JStr(<<"Honda Accord">>),
     amenities |-> JList(<<"WiFi", "AC", "Music">>),
     pickupPoints |-> JList(<<"Penn Station", "Times Square">>),
     description |-> JStr(<<"Comfortable ride to Boston with stops in Manhattan">>)],
    [id |-> <<"2">>,
     driverName |-> JStr(<<"John D.">>),
     driverRating |-> 46,
     route |-> Boston \o Arrow \o NewYork,
     departureCity |-> JStr(Boston),
     destinationCity |-> JStr(NewYork),
     departureTime |-> JStr(<<"2025-06-16T14:00:00Z">>),
     availableSeats |-> 2,
     totalSeats |-> 4,
     pricePerPerson |-> 50,
     estimatedDuration |-> JStr(<<"4h 45m">>),
     carModel |-> JStr(<<"Toyota Camry">>),
     amenities |-> JList(<<"AC", "Phone Charging">>),
     pickupPoints |-> JList(<<"South Station", "Back Bay">>),
     description |-> JStr(<<"Direct route to NYC with comfortable seating">>)],
    [id |-> <<"3">>,
     driverName |-> JStr(<<"Mike R.">>),
     driverRating |-> 49,
     route |-> NewYork \o Arrow \o Philadelphia,
     departureCity |-> JStr(NewYork),
     destinationCity |-> JStr(Philadelphia),
     departureTime |-> JStr(<<"2025-06-17T11:00:00Z">>),
     availableSeats |-> 1,
     totalSeats |-> 4,
     pricePerPerson |-> 35,
     estimatedDuration |-> JStr(<<"2h 15m">>),
     carModel |-> JStr(<<"BMW 3 Series">>),
     amenities |-> JList(<<"WiFi", "AC", "Music", "Snacks">>),
     pickupPoints |-> JList(<<"Penn Station">>),
     description |-> JStr(<<"Quick trip to Philly in luxury vehicle">>)] >>

\* str(uuid.uuid4()): the n-th identifier issued, distinct from the seed
\* identifiers and from every other one
Uuid(n) == <<"u", "u", "i", "d", "-">> \o NatStr(n)

\* the identifier the next uuid4() call yields, given the stores
NewId(ts, bs) == Uuid(Len(ts) - Len(SeedTrips) + Len(bs) + 1)

\* datetime.now().isoformat(): no handler reads it back
Now == <<"now">>

-----------------------------------------------------------------------------
(* Requests and responses *)

\* A request body: kind "object" (a JSON object, obj), "nonobject" (valid
\* JSON that is no object: get_json returns a list, a number, None, ...),
\* "malformed" (get_json raises BadRequest).
ObjectBody(obj) == [kind |-> "object", obj |-> obj]
NonObjectBody == [kind |-> "nonobject", obj |-> << >>]
MalformedBody == [kind |-> "malformed", obj |-> << >>]

NoBody == [kind |-> "none", obj |-> << >>]

Request(op, id, body, q, from, to) ==
    [op |-> op, id |-> id, body |-> body, q |-> q, from |-> from, to |-> to]

\* jsonify(...), status.  The payload's lists are `trips` and `bookings` (a
\* single trip or booking is a one-element list); a key the payload lacks
\* holds its empty value: error and message "", a list << >>, count 0.
Response(status, error, message, ts, bs, count, query) ==
    [status |-> status, success |-> (error = ""), error |-> error,
     message |-> message, trips |-> ts, bookings |-> bs, count |-> count,
     query |-> query]

\* the except branch of a handler: jsonify(success=False, error=str(e)), status
Failure(status, error) == Response(status, error, "", << >>, << >>, 0, << >>)

Outcome(ts, bs, resp) == [trips |-> ts, bookings |-> bs, resp |-> resp]

\* mutant of FindTrip: an unknown id falls back to the first trip
FindTripOrFirst(ts, trip_id) ==
    IF \E i \in 1..Len(ts) : ts[i].id = trip_id
    THEN CHOOSE i \in 1..Len(ts) :
            /\ ts[i].id = trip_id
            /\ \A j \in 1..(i - 1) : ts[j].id # trip_id
    ELSE IF ts = << >> THEN 0 ELSE 1

\* next((i for t in trips if t['id'] == trip_id), None): the position of
\* the first trip with that id, 0 for None
FindTrip(ts, trip_id) ==
    IF \E i \in 1..Len(ts) : ts[i].id = trip_id
    THEN CHOOSE i \in 1..Len(ts) :
            /\ ts[i].id = trip_id
            /\ \A j \in 1..(i - 1) : ts[j].id # trip_id
    ELSE 0

-----------------------------------------------------------------------------
(* POST /api/trips/<trip_id>/book *)

\* mutants of NoSeats: the gate lets a trip with no seat left through
NoSeatsBelowZero(trip) == trip.availableSeats < 0

NoSeatsNever(trip) == FALSE

\* trip['availableSeats'] <= 0
NoSeats(trip) == trip.availableSeats <= 0

\* trip['pricePerPerson'] * int(passengerCount)
TotalPrice(trip, n) == trip.pricePerPerson * n

\* mutant of SeatsAfter: one seat per booking, whatever the passenger count
SeatsAfterOne(trip, n) == trip.availableSeats - 1

\* mutant of SeatsAfter: the decrement stops at zero
SeatsAfterClamped(trip, n) ==
    IF n > trip.availableSeats THEN 0 ELSE trip.availableSeats - n

\* trip['availableSeats'] -= int(passengerCount)
SeatsAfter(trip, n) == trip.availableSeats - n

\* trip t with its availableSeats set to n
WithSeats(t, n) == [t EXCEPT !.availableSeats = n]

\* mutant of UpdateSeats: the capacity of the trip shrinks with its seats
UpdateSeatsAndTotal(ts, i, n) ==
    [ts EXCEPT ![i].availableSeats = SeatsAfter(ts[i], n),
               ![i].totalSeats = ts[i].totalSeats - n]

\* trip['availableSeats'] -= ..., trip being the dict stored at position i
UpdateSeats(ts, i, n) == [ts EXCEPT ![i].availableSeats = SeatsAfter(ts[i], n)]

\* the booking dict of book_trip
NewBooking(ts, bs, trip, trip_id, data, n) ==
    [id |-> NewId(ts, bs),
     tripId |-> trip_id,
     userId |-> Get(data, "userId", JStr(DemoUser)),
     passengerCount |-> n,
     status |-> "confirmed",
     bookingTime |-> Now,
     totalPrice |-> TotalPrice(trip, n)]

\* str(e) of the exception int() or float() raises on v
CoercionError(v) == IF v.t = "str" THEN "ValueError" ELSE "TypeError"

\* mutant of book_trip: the booking is appended before passengerCount is
\* coerced, so that a failed coercion leaves it in the store
book_trip_late_coercion(ts, bs, trip_id, body) ==
    IF body.kind = "malformed"
    THEN Outcome(ts, bs, Failure(400, "BadRequest"))
    ELSE LET i == FindTrip(ts, trip_id) IN
      IF i = 0
      THEN Outcome(ts, bs, Failure(404, "Trip not found"))
      ELSE IF NoSeats(ts[i])
      THEN Outcome(ts, bs, Failure(400, "No seats available"))
      ELSE IF body.kind # "object"
      THEN Outcome(ts, bs, Failure(400, "AttributeError"))
      ELSE LET pc == Get(body.obj, "passengerCount", JInt(1)) IN
        IF ~IntOk(pc)
        THEN Outcome(ts, Append(bs, NewBooking(ts, bs, ts[i], trip_id, body.obj, 0)),
                     Failure(400, CoercionError(pc)))
        ELSE LET booking == NewBooking(ts, bs, ts[i], trip_id, body.obj, IntOf(pc)) IN
          Outcome(UpdateSeats(ts, i, IntOf(pc)),
                  Append(bs, booking),
                  Response(201, "", "Trip booked successfully", << >>, <<booking>>, 0, << >>))

book_trip(ts, bs, trip_id, body) ==
    IF body.kind = "malformed"
    THEN Outcome(ts, bs, Failure(400, "BadRequest"))
    ELSE LET i == FindTrip(ts, trip_id) IN
      IF i = 0
      THEN Outcome(ts, bs, Failure(404, "Trip not found"))
      ELSE IF NoSeats(ts[i])
      THEN Outcome(ts, bs, Failure(400, "No seats available"))
      ELSE IF body.kind # "object"
      THEN Outcome(ts, bs, Failure(400, "AttributeError"))
      ELSE LET pc == Get(body.obj, "passengerCount", JInt(1)) IN
        IF ~IntOk(pc)
        THEN Outcome(ts, bs, Failure(400, CoercionError(pc)))
        ELSE LET booking == NewBooking(ts, bs, ts[i], trip_id, body.obj, IntOf(pc)) IN
          Outcome(UpdateSeats(ts, i, IntOf(pc)),
                  Append(bs, booking),
                  Response(201, "", "Trip booked successfully", << >>, <<booking>>, 0, << >>))

-----------------------------------------------------------------------------
(* POST /api/trips *)

\* mutant of SeatCount: the key is misspelt, the default is always taken
SeatCountTypo(data) == IntOf(Get(data, "seat", JInt(1)))

\* int(data.get('seats', 1))
SeatCount(data) == IntOf(Get(data, "seats", JInt(1)))

\* mutant of DefaultDriverName: the default is the empty str
NoDriverName == JStr(Empty)

\* the defaults of data.get('driverName', 'Anonymous'), data.get('duration',
\* 'TBD') and data.get('carModel', 'Standard Vehicle')
DefaultDriverName == JStr(<<"Anonymous">>)

DefaultDuration == JStr(<<"TBD">>)

DefaultCarModel == JStr(<<"Standard Vehicle">>)

\* the new_trip dict of create_trip
NewTrip(ts, bs, data) ==
    [id |-> NewId(ts, bs),
     driverName |-> Get(data, "driverName", DefaultDriverName),
     driverRating |-> 45,
     route |-> Format(Get(data, "from", JStr(Empty))) \o Arrow
               \o Format(Get(data, "to", JStr(Empty))),
     departureCity |-> Get(data, "from", JStr(Empty)),
     destinationCity |-> Get(data, "to", JStr(Empty)),
     departureTime |-> Get(data, "departureTime", JStr(Empty)),
     availableSeats |-> SeatCount(data),
     totalSeats |-> SeatCount(data),
     pricePerPerson |-> FloatOf(Get(data, "price", JInt(0))),
     estimatedDuration |-> Get(data, "duration", DefaultDuration),
     carModel |-> Get(data, "carModel", DefaultCarModel),
     amenities |-> Get(data, "amenities", JList(<< >>)),
     pickupPoints |-> Get(data, "pickupPoints", JList(<< >>)),
     description |-> Get(data, "description", JStr(Empty))]

create_trip(ts, bs, body) ==
    IF body.kind = "malformed"
    THEN Outcome(ts, bs, Failure(400, "BadRequest"))
    ELSE IF body.kind # "object"
    THEN Outcome(ts, bs, Failure(400, "AttributeError"))
    ELSE IF ~IntOk(Get(body.obj, "seats", JInt(1)))
    THEN Outcome(ts, bs, Failure(400, CoercionError(Get(body.obj, "seats", JInt(1)))))
    ELSE IF ~FloatOk(Get(body.obj, "price", JInt(0)))
    THEN Outcome(ts, bs, Failure(400, CoercionError(Get(body.obj, "price", JInt(0)))))
    ELSE LET new_trip == NewTrip(ts, bs, body.obj) IN
      Outcome(Append(ts, new_trip), bs,
              Response(201, "", "Trip created successfully", <<new_trip>>, << >>, 0, << >>))

-----------------------------------------------------------------------------
(* GET /api/trips and GET /api/trips/search *)

get_trips(ts, bs) == Outcome(ts, bs, Response(200, "", "", ts, << >>, Len(ts), << >>))

\* v.lower() raises AttributeError unless v is a str
HasLower(v) == v.t = "str"

\* query in t['route'].lower() or query in t['departureCity'].lower() or
\* query in t['destinationCity'].lower(): the value of the test ...
QueryMatches(t, query) ==
    \/ Contains(query, Lower(t.route))
    \/ Contains(query, Lower(t.departureCity.s))
    \/ Contains(query, Lower(t.destinationCity.s))

\* ... and whether evaluating it, left to right with short circuit, raises
QueryRaises(t, query) ==
    /\ ~Contains(query, Lower(t.route))
    /\ \/ ~HasLower(t.departureCity)
       \/ /\ ~Contains(query, Lower(t.departureCity.s))
          /\ ~HasLower(t.destinationCity)

\* mutant of AllTrips: sold-out trips are left out of every search
OnlyBookable(ts) == SelectSeq(ts, LAMBDA t : t.availableSeats > 0)

\* filtered_trips = trips
AllTrips(ts) == ts

\* [t for t in filtered_trips if query in ...]
FilterQuery(ts, query) == SelectSeq(ts, LAMBDA t : QueryMatches(t, query))

\* [t for t in filtered_trips if departure in t['departureCity'].lower()]
FilterDeparture(ts, departure) ==
    SelectSeq(ts, LAMBDA t : Contains(departure, Lower(t.departureCity.s)))

\* [t for t in filtered_trips if destination in t['destinationCity'].lower()]
FilterDestination(ts, destination) ==
    SelectSeq(ts, LAMBDA t : Contains(destination, Lower(t.destinationCity.s)))

search_trips(ts, bs, q, from, to) ==
    LET query == Lower(q)
        departure == Lower(from)
        destination == Lower(to)
        f0 == AllTrips(ts)
        raises1 == query # Empty /\ \E i \in 1..Len(f0) : QueryRaises(f0[i], query)
        f1 == IF query # Empty /\ ~raises1 THEN FilterQuery(f0, query) ELSE f0
        raises2 == departure # Empty
                   /\ \E i \in 1..Len(f1) : ~HasLower(f1[i].departureCity)
        f2 == IF departure # Empty /\ ~raises2 THEN FilterDeparture(f1, departure) ELSE f1
        raises3 == destination # Empty
                   /\ \E i \in 1..Len(f2) : ~HasLower(f2[i].destinationCity)
        f3 == IF destination # Empty /\ ~raises3 THEN FilterDestination(f2, destination) ELSE f2
    IN IF raises1 \/ raises2 \/ raises3
       THEN Outcome(ts, bs, Failure(500, "AttributeError"))
       ELSE Outcome(ts, bs, Response(200, "", "", f3, << >>, Len(f3),
                                     <<query, departure, destination>>))

-----------------------------------------------------------------------------
(* GET /api/users/<user_id>/bookings *)

\* b['userId'] == user_id, user_id being the str of the URL
SameUser(b, user_id) == b.userId.t = "str" /\ b.userId.s = user_id

\* mutant of UserBookings: the user filter is dropped
AllBookings(bs, user_id) == bs

\* [b for b in bookings if b['userId'] == user_id]
UserBookings(bs, user_id) == SelectSeq(bs, LAMBDA b : SameUser(b, user_id))

\* {**booking, "trip": trip}
Detailed(booking, trip) == ("trip" :> trip) @@ booking

RECURSIVE DetailedBookings(_, _)
\* the loop over user_bookings
DetailedBookings(ts, user_bookings) ==
    IF user_bookings = << >> THEN << >>
    ELSE LET booking == Head(user_bookings)
             i == FindTrip(ts, booking.tripId)
             rest == DetailedBookings(ts, Tail(user_bookings))
         IN IF i # 0 THEN <<Detailed(booking, ts[i])>> \o rest ELSE rest

get_user_bookings(ts, bs, user_id) ==
    LET detailed_bookings == DetailedBookings(ts, UserBookings(bs, user_id)) IN
    Outcome(ts, bs,
            Response(200, "", "", << >>, detailed_bookings, Len(detailed_bookings), << >>))

-----------------------------------------------------------------------------
(* The requests the model sends *)

BookBodies ==
    { ObjectBody(<< >>),
      ObjectBody([userId |-> JStr(DemoUser), passengerCount |-> JInt(1)]),
      ObjectBody([userId |-> JStr(Alice), passengerCount |-> JInt(2)]),
      ObjectBody([userId |-> JStr(Alice), passengerCount |-> JStr(<<"-", "1">>)]),
      ObjectBody([passengerCount |-> JStr(<<"a", "b", "c">>)]),
      NonObjectBody,
      MalformedBody }

CreateBodies ==
    { ObjectBody(<< >>),
      ObjectBody([driverName |-> JStr(<<"Rita">>),
                  from |-> JStr(Rome),
                  to |-> JStr(Boston),
                  departureTime |-> JStr(<<"2025-07-01T08:00:00Z">>),
                  seats |-> JInt(2),
                  price |-> JInt(20),
                  duration |-> JStr(<<"9h">>),
                  carModel |-> JStr(<<"Fiat 500">>),
                  amenities |-> JList(<<"AC">>),
                  pickupPoints |-> JList(<<"Termini">>),
                  description |-> JStr(<<"Long ride">>)]),
      ObjectBody([from |-> JNull, to |-> JStr(Boston), seats |-> JStr(<<"0">>)]),
      ObjectBody([seats |-> JStr(<<"a", "b", "c">>)]),
      ObjectBody([seats |-> JInt(2), price |-> JNull]),
      NonObjectBody,
      MalformedBody }

UnknownId == <<"nope">>

TripIds(ts) == {ts[i].id : i \in 1..Len(ts)} \cup {UnknownId}

UserIds == {DemoUser, Alice}

\* (q, from, to) of the search requests
SearchArgs ==
    { <<Empty, Empty, Empty>>,
      <<<<"B", "O", "S">>, Empty, Empty>>,
      <<<<"k", " ", "→">>, Empty, Empty>>,
      <<<<"r", "o", "m">>, Empty, Empty>>,
      <<Empty, <<"N", "E", "W">>, Empty>>,
      <<Empty, Empty, <<"y", "o", "r", "k">>>>,
      <<<<"B", "O", "S">>, <<"N", "E", "W">>, <<"o", "n">>>> }

\* the stores hold at most MaxOps records more than the seed data
WithinBounds(out) == Len(out.trips) + Len(out.bookings) <= Len(SeedTrips) + MaxOps

-----------------------------------------------------------------------------
(* The state machine: requests are handled one at a time, each to completion *)

Handle(req, out) ==
    /\ WithinBounds(out)
    /\ trips' = out.trips
    /\ bookings' = out.bookings
    /\ last' = [req |-> req, resp |-> out.resp]
    /\ UNCHANGED threads

\* The threads of a threaded server, each about to handle one booking
\* request: pc is the thread's position in book_trip, trip_id the path
\* parameter, i the position of the trip it resolved, checked the
\* availableSeats it saw at the availability check, seen the availableSeats
\* it loaded for the decrement, status the status of its response.
Threads == 1..MaxThreads

IdleThread ==
    [pc |-> "idle", trip_id |-> Empty, i |-> 0, checked |-> 0, seen |-> 0, status |-> 0]

Init ==
    /\ trips = SeedTrips
    /\ bookings = << >>
    /\ last = [req |-> Request("none", Empty, NoBody, Empty, Empty, Empty),
               resp |-> Failure(0, "")]
    /\ threads = [t \in Threads |-> IdleThread]

BookTrip ==
    \E trip_id \in TripIds(trips), body \in BookBodies :
        Handle(Request("book_trip", trip_id, body, Empty, Empty, Empty),
               book_trip(trips, bookings, trip_id, body))

CreateTrip ==
    \E body \in CreateBodies :
        Handle(Request("create_trip", Empty, body, Empty, Empty, Empty),
               create_trip(trips, bookings, body))

GetTrips ==
    Handle(Request("get_trips", Empty, NoBody, Empty, Empty, Empty),
           get_trips(trips, bookings))

SearchTrips ==
    \E args \in SearchArgs :
        Handle(Request("search_trips", Empty, NoBody, args[1], args[2], args[3]),
               search_trips(trips, bookings, args[1], args[2], args[3]))

GetUserBookings ==
    \E user_id \in UserIds :
        Handle(Request("get_user_bookings", user_id, NoBody, Empty, Empty, Empty),
               get_user_bookings(trips, bookings, user_id))

Next ==
    \/ BookTrip
    \/ CreateTrip
    \/ GetTrips
    \/ SearchTrips
    \/ GetUserBookings

Spec == Init /\ [][Next]_vars

-----------------------------------------------------------------------------
(* book_trip under parallel threads: the statements of the handler are the *)
(* steps, and the steps of different requests interleave.  Every request   *)
(* sends the body {"passengerCount": 1}.                                   *)

ThreadData == [passengerCount |-> JInt(1)]

\* lines 182-187: the body is parsed and the trip resolved
ThreadFind(t) ==
    /\ threads[t].pc = "idle"
    /\ \E trip_id \in TripIds(trips) :
          LET i == FindTrip(trips, trip_id) IN
          threads' = [threads EXCEPT ![t] =
              IF i = 0
              THEN [@ EXCEPT !.pc = "done", !.trip_id = trip_id, !.status = 404]
              ELSE [@ EXCEPT !.pc = "check", !.trip_id = trip_id, !.i = i]]
    /\ UNCHANGED <<trips, bookings, last>>

\* lines 190-191: the availability check
ThreadCheck(t) ==
    /\ threads[t].pc = "check"
    /\ threads' = [threads EXCEPT ![t] =
          IF NoSeats(trips[threads[t].i])
          THEN [@ EXCEPT !.pc = "done", !.status = 400,
                         !.checked = trips[threads[t].i].availableSeats]
          ELSE [@ EXCEPT !.pc = "append",
                         !.checked = trips[threads[t].i].availableSeats]]
    /\ UNCHANGED <<trips, bookings, last>>

\* lines 194-204: the booking is built and appended
ThreadAppend(t) ==
    /\ threads[t].pc = "append"
    /\ bookings' = Append(bookings,
          NewBooking(trips, bookings, trips[threads[t].i], threads[t].trip_id,
                     ThreadData, IntOf(Get(ThreadData, "passengerCount", JInt(1)))))
    /\ threads' = [threads EXCEPT ![t].pc = "load"]
    /\ UNCHANGED <<trips, last>>

\* line 207, first half: trip['availableSeats'] is loaded
ThreadLoad(t) ==
    /\ threads[t].pc = "load"
    /\ threads' = [threads EXCEPT ![t].pc = "store",
                                  ![t].seen = trips[threads[t].i].availableSeats]
    /\ UNCHANGED <<trips, bookings, last>>

\* line 207, second half: the difference is stored; lines 209-213: 201
ThreadStore(t) ==
    /\ threads[t].pc = "store"
    /\ trips' = [trips EXCEPT ![threads[t].i].availableSeats =
          SeatsAfter(WithSeats(trips[threads[t].i], threads[t].seen),
                     IntOf(Get(ThreadData, "passengerCount", JInt(1))))]
    /\ threads' = [threads EXCEPT ![t].pc = "done", ![t].status = 201]
    /\ UNCHANGED <<bookings, last>>

NextThreads ==
    \E t \in Threads :
        \/ ThreadFind(t)
        \/ ThreadCheck(t)
        \/ ThreadAppend(t)
        \/ ThreadLoad(t)
        \/ ThreadStore(t)

SpecThreads == Init /\ [][NextThreads]_vars

-----------------------------------------------------------------------------
(* Properties.  A step of the state machine handles the request last'.req  *)
(* in the stores trips, bookings and answers last'.resp.                   *)

TripIndexes == 1..Len(trips)

BookingIndexes == 1..Len(bookings)

StoresUnchanged == trips' = trips /\ bookings' = bookings

\* the step handles a booking request
BookingStep == last'.req.op = "book_trip"

\* the body of the request of the step was parsed to a JSON value
BodyParsed == last'.req.body.kind # "malformed"

\* the body of the request of the step is a JSON object that carries the
\* integer k as passengerCount
SendsPassengerCount(k) ==
    /\ last'.req.body.kind = "object"
    /\ "passengerCount" \in DOMAIN last'.req.body.obj
    /\ last'.req.body.obj["passengerCount"] = JInt(k)

\* the step appends exactly one booking and keeps the ones stored
OneBookingAppended ==
    /\ Len(bookings') = Len(bookings) + 1
    /\ SubSeq(bookings', 1, Len(bookings)) = bookings

\* C1: the availableSeats of a trip is never negative once a booking of
\* that trip has succeeded.
C1_SeatsNeverNegative ==
    \A i \in TripIndexes :
        (\E j \in BookingIndexes : bookings[j].tripId = trips[i].id)
            => trips[i].availableSeats >= 0

C3_BookingWithinCapacity ==
    [][\A i \in TripIndexes : \A k \in 1..trips[i].availableSeats :
          (/\ BookingStep
           /\ last'.req.id = trips[i].id
           /\ SendsPassengerCount(k))
          => /\ last'.resp.status = 201
             /\ Len(trips') = Len(trips)
             /\ trips'[i].availableSeats = trips[i].availableSeats - k
             /\ OneBookingAppended
             /\ bookings'[Len(bookings')].passengerCount = k
             /\ bookings'[Len(bookings')].totalPrice = trips[i].pricePerPerson * k
             /\ bookings'[Len(bookings')].tripId = trips[i].id]_vars

\* a booking for 2 passengers took the last 2 seats of a trip
C3_Witness ==
    /\ last.req.op = "book_trip"
    /\ last.resp.status = 201
    /\ last.req.body.kind = "object"
    /\ "passengerCount" \in DOMAIN last.req.body.obj
    /\ last.req.body.obj["passengerCount"] = JInt(2)
    /\ \E i \in TripIndexes :
          /\ trips[i].id = last.req.id
          /\ trips[i].availableSeats = 0
          /\ bookings[Len(bookings)].totalPrice = 2 * trips[i].pricePerPerson

\* C4 as stated: a booking request for an id that matches no trip is
\* answered 404 "Trip not found" for every request body, and changes no store.
C4_UnknownTripAlways404 ==
    [][(BookingStep /\ \A i \in TripIndexes : trips[i].id # last'.req.id)
          => /\ last'.resp.status = 404
             /\ last'.resp.error = "Trip not found"
             /\ StoresUnchanged]_vars

\* C4 amended: a booking request for an id that matches no trip is answered
\* 404 "Trip not found" for every body that parses as JSON (an object or
\* not) and 400 for a body that does not parse; it changes no store in
\* either case.
C4_UnknownTripRejected ==
    [][(BookingStep /\ \A i \in TripIndexes : trips[i].id # last'.req.id)
          => /\ BodyParsed => /\ last'.resp.status = 404
                              /\ last'.resp.error = "Trip not found"
             /\ ~BodyParsed => last'.resp.status = 400
             /\ StoresUnchanged]_vars

\* an unknown id was asked for, with a body that is JSON but no object, in
\* a state with bookings, and the answer was 404
C4_Witness ==
    /\ last.req.op = "book_trip"
    /\ last.req.id = UnknownId
    /\ last.req.body.kind = "nonobject"
    /\ last.resp.status = 404
    /\ bookings # << >>

\* C5: every stored booking is for at least one passenger.
C5_PassengerCountPositive ==
    \A j \in BookingIndexes : bookings[j].passengerCount >= 1

\* the positions of the bookings the lookup for user u has to return
LookupIndexes(u) ==
    {j \in BookingIndexes :
        /\ bookings[j].userId = JStr(u)
        /\ \E i \in TripIndexes : trips[i].id = bookings[j].tripId}

\* the k-th smallest member of the set S of numbers
Kth(S, k) == CHOOSE j \in S : Cardinality({m \in S : m <= j}) = k

\* record r is the booking b plus a field `trip` holding the stored trip b
\* refers to
IsEnriched(r, b) ==
    /\ DOMAIN r = DOMAIN b \cup {"trip"}
    /\ \A f \in DOMAIN b : r[f] = b[f]
    /\ \E i \in TripIndexes : trips[i].id = b.tripId /\ r["trip"] = trips[i]

\* C6: the lookup for user u returns, in insertion order, one record for
\* each stored booking of u whose trip exists, each the booking plus the
\* current record of its trip, and count is the length of the list; after a
\* single booking for "demo-user" it returns one record embedding the
\* booked trip.
C6_UserBookingsLookup ==
    last.req.op = "get_user_bookings" =>
        LET u == last.req.id
            r == last.resp.bookings
            S == LookupIndexes(u)
        IN /\ last.resp.status = 200
           /\ last.resp.count = Len(r)
           /\ Len(r) = Cardinality(S)
           /\ \A k \in 1..Len(r) : IsEnriched(r[k], bookings[Kth(S, k)])
           /\ (/\ u = DemoUser
               /\ Len(bookings) = 1
               /\ bookings[1].userId = JStr(DemoUser))
              => /\ Len(r) = 1
                 /\ r[1]["trip"].id = bookings[1].tripId

\* two bookings of two users are stored and the lookup returned the one of
\* the user asked for
C6_Witness ==
    /\ last.req.op = "get_user_bookings"
    /\ Len(bookings) = 2
    /\ Len(last.resp.bookings) = 1
    /\ last.resp.bookings[1].id = bookings[2].id

\* the step handles a trip creation and answers 201
CreatedStep == last'.req.op = "create_trip" /\ last'.resp.status = 201

\* the body of the step carries a JSON integer under key
SendsInt(key) ==
    /\ key \in DOMAIN last'.req.body.obj
    /\ last'.req.body.obj[key].t = "int"

\* C7: a successful creation with seat count s and price p appends exactly
\* one trip, at the end, with availableSeats = totalSeats = s and
\* pricePerPerson = p, bookable by the id the response returns; a trip
\* created with seats 2 and price 20 and then booked for 1 passenger is
\* left with 1 seat, the booking costing 20.
C7_CreateThenBook ==
    [][/\ CreatedStep =>
            LET new == trips'[Len(trips')] IN
            /\ Len(trips') = Len(trips) + 1
            /\ SubSeq(trips', 1, Len(trips)) = trips
            /\ bookings' = bookings
            /\ new.availableSeats = new.totalSeats
            /\ SendsInt("seats") => new.availableSeats = last'.req.body.obj["seats"].i
            /\ SendsInt("price") => new.pricePerPerson = last'.req.body.obj["price"].i
            /\ last'.resp.trips = <<new>>
            /\ \A i \in TripIndexes : trips[i].id # new.id
       /\ \A i \in TripIndexes :
            (/\ BookingStep
             /\ last'.req.id = trips[i].id
             /\ i > Len(SeedTrips)
             /\ trips[i].totalSeats = 2
             /\ trips[i].availableSeats = 2
             /\ trips[i].pricePerPerson = 20
             /\ SendsPassengerCount(1))
            => /\ last'.resp.status = 201
               /\ trips'[i].availableSeats = 1
               /\ last'.resp.bookings[1].totalPrice = 20
               /\ bookings'[Len(bookings')] = last'.resp.bookings[1]]_vars

\* a trip created with seats 2 and price 20 was booked for 1 passenger
C7_Witness ==
    /\ last.req.op = "book_trip"
    /\ last.resp.status = 201
    /\ Len(trips) = Len(SeedTrips) + 1
    /\ trips[Len(trips)].id = last.req.id
    /\ trips[Len(trips)].totalSeats = 2
    /\ trips[Len(trips)].pricePerPerson = 20
    /\ trips[Len(trips)].availableSeats = 1
    /\ bookings[1].totalPrice = 20

\* the last request was a search with the three filters empty
EmptySearch ==
    /\ last.req.op = "search_trips"
    /\ last.req.q = Empty
    /\ last.req.from = Empty
    /\ last.req.to = Empty

\* C8: a search with the three filters empty returns the whole Trip Store
\* in insertion order, count being the number of trips.
C8_EmptySearchReturnsAll ==
    EmptySearch =>
        /\ last.resp.status = 200
        /\ last.resp.trips = trips
        /\ last.resp.count = Len(trips)

\* an empty search was answered after a trip was created and a seat booked
C8_Witness ==
    /\ EmptySearch
    /\ Len(trips) > Len(SeedTrips)
    /\ bookings # << >>
    /\ \E i \in TripIndexes : trips[i].availableSeats <= 0

\* the text of a field of a trip, for the claim: a field that holds no str
\* contains no query
TextOf(v) == IF v.t = "str" THEN v.s ELSE Empty

\* trip t matches the free-text query q, as C9 states it
MatchesText(t, q) ==
    \/ Contains(Lower(q), Lower(t.route))
    \/ Contains(Lower(q), Lower(TextOf(t.departureCity)))
    \/ Contains(Lower(q), Lower(TextOf(t.destinationCity)))

\* C9: for a non-empty free-text query q and empty city filters, the search
\* returns exactly the trips whose route, departure city or destination
\* city contains q, case-insensitively, in insertion order.
C9_FreeTextSearchExact ==
    (/\ last.req.op = "search_trips"
     /\ last.req.q # Empty
     /\ last.req.from = Empty
     /\ last.req.to = Empty)
    => /\ last.resp.status = 200
       /\ last.resp.trips = SelectSeq(trips, LAMBDA t : MatchesText(t, last.req.q))

\* the trip of the booking request of the step, 0 if its id is unknown
Target == FindTrip(trips, last'.req.id)

\* the answer of the step is the 400 of a failed coercion of the body
ValidationError == last'.resp.error \in {"AttributeError", "ValueError", "TypeError"}

\* C10 as stated: the failure points of a booking come in a fixed order:
\* unknown id, 404, whatever the other inputs; else no seat left, 400 "No
\* seats available", whatever passengerCount; a 400 validation error only
\* when both checks passed; a booking appended only if none of the three
\* failed.
C10_FailureOrder ==
    [][BookingStep =>
          /\ Target = 0 => last'.resp.status = 404
          /\ (Target # 0 /\ trips[Target].availableSeats <= 0)
                => /\ last'.resp.status = 400
                   /\ last'.resp.error = "No seats available"
          /\ ValidationError => (Target # 0 /\ trips[Target].availableSeats > 0)
          /\ bookings' # bookings =>
                /\ Target # 0
                /\ trips[Target].availableSeats > 0
                /\ last'.resp.status = 201]_vars

\* C10 amended: a body that does not parse is answered 400 before any
\* check; for a body that parses the failure points come in the fixed
\* order: unknown id, 404; else no seat left, 400 "No seats available",
\* whatever passengerCount; a 400 validation error only when both checks
\* passed; a booking appended only if none of the three failed.
C10_FailureOrderParsed ==
    [][BookingStep =>
          /\ ~BodyParsed => (last'.resp.status = 400 /\ StoresUnchanged)
          /\ (BodyParsed /\ Target = 0) => last'.resp.status = 404
          /\ (BodyParsed /\ Target # 0 /\ trips[Target].availableSeats <= 0)
                => /\ last'.resp.status = 400
                   /\ last'.resp.error = "No seats available"
          /\ ValidationError => (Target # 0 /\ trips[Target].availableSeats > 0)
          /\ bookings' # bookings =>
                /\ BodyParsed
                /\ Target # 0
                /\ trips[Target].availableSeats > 0
                /\ last'.req.body.kind = "object"
                /\ IntOk(Get(last'.req.body.obj, "passengerCount", JInt(1)))
                /\ last'.resp.status = 201]_vars

\* a trip with seats left was asked for with a passengerCount that is no
\* number: both checks passed and the coercion failed
C10_Witness ==
    /\ last.req.op = "book_trip"
    /\ last.resp.status = 400
    /\ last.resp.error = "ValueError"
    /\ \E i \in TripIndexes :
          trips[i].id = last.req.id /\ trips[i].availableSeats > 0


\* C11: with availableSeats = N > 0 and an integer passengerCount k > N the
\* booking is not rejected: it is answered 201, appends a booking for k
\* passengers and leaves the trip with N - k seats, a negative number.
C11_OverbookingAccepted ==
    [][\A i \in TripIndexes :
          (/\ BookingStep
           /\ last'.req.id = trips[i].id
           /\ trips[i].availableSeats > 0
           /\ last'.req.body.kind = "object"
           /\ SendsInt("passengerCount")
           /\ last'.req.body.obj["passengerCount"].i > trips[i].availableSeats)
          => LET k == last'.req.body.obj["passengerCount"].i IN
             /\ last'.resp.status = 201
             /\ OneBookingAppended
             /\ bookings'[Len(bookings')].passengerCount = k
             /\ bookings'[Len(bookings')].tripId = trips[i].id
             /\ trips'[i].availableSeats = trips[i].availableSeats - k
             /\ trips'[i].availableSeats < 0]_vars

\* a booking for 2 passengers was accepted on a trip that had 1 seat left
C11_Witness ==
    /\ last.req.op = "book_trip"
    /\ last.resp.status = 201
    /\ last.resp.bookings[1].passengerCount = 2
    /\ \E i \in TripIndexes :
          trips[i].id = last.req.id /\ trips[i].availableSeats = -1


\* the step handles a booking or a trip creation and answers an error
RejectedStep ==
    /\ last'.req.op \in {"book_trip", "create_trip"}
    /\ last'.resp.status \in {400, 404}

\* C12: a booking or trip-creation request that ends in an error response
\* (400 or 404), whatever made it fail, leaves both stores unchanged; and a
\* booking step appends a booking exactly when it takes the seats of that
\* booking off the trip.
C12_AllOrNothing ==
    [][/\ RejectedStep => StoresUnchanged
       /\ BookingStep =>
            /\ bookings' # bookings =>
                  /\ OneBookingAppended
                  /\ Target # 0
                  /\ trips'[Target].availableSeats =
                        trips[Target].availableSeats
                            - bookings'[Len(bookings')].passengerCount
            /\ trips' # trips => bookings' # bookings]_vars

\* a creation failed on the coercion of its price, after its seat count
\* was coerced, in stores that hold a created trip and a booking
C12_Witness ==
    /\ last.req.op = "create_trip"
    /\ last.resp.status = 400
    /\ last.resp.error = "TypeError"
    /\ Len(trips) = Len(SeedTrips) + 1
    /\ Len(bookings) = 1


\* the step answers a booking request with 201
BookedStep == BookingStep /\ last'.resp.status = 201

\* C13: a successful booking changes only the availableSeats of the trip
\* it targets and appends exactly one booking, every other trip, field and
\* stored booking staying as it was; and no step of any operation removes
\* or reorders a trip or a booking.
C13_BookingFrame ==
    [][/\ BookedStep =>
            /\ Target # 0
            /\ Len(trips') = Len(trips)
            /\ \A i \in TripIndexes : i # Target => trips'[i] = trips[i]
            /\ trips'[Target] = WithSeats(trips[Target], trips'[Target].availableSeats)
            /\ OneBookingAppended
       /\ Len(trips') >= Len(trips)
       /\ \A i \in TripIndexes :
            trips'[i] = WithSeats(trips[i], trips'[i].availableSeats)
       /\ Len(bookings') >= Len(bookings)
       /\ SubSeq(bookings', 1, Len(bookings)) = bookings]_vars

\* a second booking succeeded, on another trip than the first
C13_Witness ==
    /\ last.req.op = "book_trip"
    /\ last.resp.status = 201
    /\ Len(bookings) = 2
    /\ bookings[1].tripId # bookings[2].tripId
    /\ \E i \in TripIndexes :
          /\ trips[i].id = last.req.id
          /\ trips[i].availableSeats # trips[i].totalSeats


\* C14: no step raises the availableSeats of a stored trip.
C14_SeatsNeverIncrease ==
    [][\A i \in TripIndexes :
          trips'[i].availableSeats <= trips[i].availableSeats]_vars


RECURSIVE SeatsBooked(_, _)
\* the sum of passengerCount over the bookings of bs whose tripId is id
SeatsBooked(bs, id) ==
    IF bs = << >> THEN 0
    ELSE (IF Head(bs).tripId = id THEN Head(bs).passengerCount ELSE 0)
         + SeatsBooked(Tail(bs), id)

\* the availableSeats the trip at position i had when it entered the store:
\* its seed value, or the seat count of its creation, which totalSeats keeps
SeatsAtEntry(i) ==
    IF i <= Len(SeedTrips) THEN SeedTrips[i].availableSeats ELSE trips[i].totalSeats

\* C16: with requests handled one at a time, the availableSeats of every
\* trip is what it was when the trip entered the store minus the sum of
\* passengerCount over the stored bookings of that trip.
C16_SeatConservation ==
    \A i \in TripIndexes :
        trips[i].availableSeats = SeatsAtEntry(i) - SeatsBooked(bookings, trips[i].id)

\* one trip has two stored bookings, for different numbers of passengers
C16_Witness ==
    /\ Len(bookings) = 2
    /\ bookings[1].tripId = bookings[2].tripId
    /\ bookings[1].passengerCount # bookings[2].passengerCount


\* the stored bookings that refer to the trip with this id
BookingsOf(bs, id) == SelectSeq(bs, LAMBDA b : b.tripId = id)

\* C17: once the availableSeats of a trip is <= 0, every later booking
\* request for it is answered 400, and its availableSeats and the bookings
\* that refer to it never change again.
C17_SoldOutAbsorbing ==
    [][\A i \in TripIndexes :
          trips[i].availableSeats <= 0 =>
             /\ trips'[i].availableSeats = trips[i].availableSeats
             /\ BookingsOf(bookings', trips[i].id) = BookingsOf(bookings, trips[i].id)
             /\ (BookingStep /\ last'.req.id = trips[i].id)
                   => last'.resp.status = 400]_vars

\* an overbooked trip, with fewer than no seat left, was asked for again
\* and the request was answered 400
C17_Witness ==
    /\ last.req.op = "book_trip"
    /\ last.resp.status = 400
    /\ \E i \in TripIndexes :
          /\ trips[i].id = last.req.id
          /\ trips[i].availableSeats < 0
          /\ BookingsOf(bookings, trips[i].id) # << >>


\* the number of stored bookings whose userId is the str u
BookingsOfUser(u) == Cardinality({j \in BookingIndexes : bookings[j].userId = JStr(u)})

\* C18: every stored booking refers to a trip of the Trip Store, so that
\* the lookup for user u drops no booking: its count is the number of
\* stored bookings whose userId is u.
C18_ReferentialIntegrity ==
    /\ \A j \in BookingIndexes : \E i \in TripIndexes : trips[i].id = bookings[j].tripId
    /\ last.req.op = "get_user_bookings" =>
          /\ last.resp.count = BookingsOfUser(last.req.id)
          /\ Len(last.resp.bookings) = BookingsOfUser(last.req.id)

\* the lookup returned both stored bookings, made by one user on two trips
C18_Witness ==
    /\ last.req.op = "get_user_bookings"
    /\ Len(bookings) = 2
    /\ bookings[1].tripId # bookings[2].tripId
    /\ last.resp.count = 2


\* the body of the step, a JSON object, omits key
Omits(key) == key \notin DOMAIN last'.req.body.obj

\* the trip the creation step appended
Created == trips'[Len(trips')]

\* C19 as stated: in a trip created from a request that omits optional
\* fields, each omitted string field (driver name, cities, departure time,
\* duration, vehicle model, description) is the empty string and each
\* omitted list field (amenities, pickup points) the empty list.
C19_OmittedFieldsEmpty ==
    [][CreatedStep =>
          /\ Omits("driverName") => Created.driverName = JStr(Empty)
          /\ Omits("from") => Created.departureCity = JStr(Empty)
          /\ Omits("to") => Created.destinationCity = JStr(Empty)
          /\ Omits("departureTime") => Created.departureTime = JStr(Empty)
          /\ Omits("duration") => Created.estimatedDuration = JStr(Empty)
          /\ Omits("carModel") => Created.carModel = JStr(Empty)
          /\ Omits("description") => Created.description = JStr(Empty)
          /\ Omits("amenities") => Created.amenities = JList(<< >>)
          /\ Omits("pickupPoints") => Created.pickupPoints = JList(<< >>)]_vars

\* C19 amended: in a trip created from a request that omits optional
\* fields, an omitted city, departure time or description is the empty
\* string, an omitted driver name is "Anonymous", an omitted duration
\* "TBD", an omitted vehicle model "Standard Vehicle", and an omitted list
\* field (amenities, pickup points) the empty list.
C19_OmittedFieldsDefault ==
    [][CreatedStep =>
          /\ Omits("driverName") => Created.driverName = JStr(<<"Anonymous">>)
          /\ Omits("from") => Created.departureCity = JStr(Empty)
          /\ Omits("to") => Created.destinationCity = JStr(Empty)
          /\ Omits("departureTime") => Created.departureTime = JStr(Empty)
          /\ Omits("duration") => Created.estimatedDuration = JStr(<<"TBD">>)
          /\ Omits("carModel") => Created.carModel = JStr(<<"Standard Vehicle">>)
          /\ Omits("description") => Created.description = JStr(Empty)
          /\ Omits("amenities") => Created.amenities = JList(<< >>)
          /\ Omits("pickupPoints") => Created.pickupPoints = JList(<< >>)]_vars

\* a trip was created from the empty JSON object
C19_Witness ==
    /\ last.req.op = "create_trip"
    /\ last.resp.status = 201
    /\ last.req.body.obj = << >>
    /\ trips[Len(trips)].driverName = JStr(<<"Anonymous">>)
    /\ trips[Len(trips)].description = JStr(Empty)
    /\ trips[Len(trips)].route = Arrow


\* the threads that passed the availability check on the trip at position i
Admitted(i) ==
    {t \in Threads :
        threads[t].i = i /\ threads[t].pc \in {"append", "load", "store", "done"}
                         /\ threads[t].status # 400}

\* C15: with parallel threads whose availability checks and seat decrements
\* interleave, and every request asking for 1 passenger, nothing orders the
\* check of one request after the decrement of another: every request that
\* gets past the check saw at least one seat left, each stored booking is
\* for 1 passenger, and still a trip ends with availableSeats < 0, which
\* happens only when more requests were admitted than the trip had seats.
C15_RaceOnSeats ==
    /\ \A j \in BookingIndexes : bookings[j].passengerCount = 1
    /\ \A i \in TripIndexes :
          /\ \A t \in Admitted(i) : threads[t].checked >= 1
          /\ trips[i].availableSeats >= SeedTrips[i].availableSeats - Cardinality(Admitted(i))
          /\ trips[i].availableSeats < 0 =>
                Cardinality(Admitted(i)) > SeedTrips[i].availableSeats

\* two requests for 1 passenger each both passed the check of a trip with
\* one seat, both were answered 201, and the trip is left with -1 seats
C15_Witness ==
    \E i \in TripIndexes :
        /\ SeedTrips[i].availableSeats = 1
        /\ trips[i].availableSeats < 0
        /\ \A t \in Threads : threads[t].status = 201 => threads[t].checked = 1
        /\ Cardinality({t \in Threads : threads[t].i = i /\ threads[t].status = 201}) >= 2
        /\ \A j \in BookingIndexes : bookings[j].passengerCount = 1

=============================================================================
